---- MODULE Spec2Model ----
(***************************************************************************)
(* A model of congress_scrape.py: the interstitial-clearance protocol of   *)
(* fetch_hearing as a state machine over a wall clock, and the pure text   *)
(* helpers (_extract_structured_fields, _iso_from_date_text,               *)
(* _grab_text_from_dom, _requests_with_cookies, _passed_cloudflare) as     *)
(* operators over token sequences.                                         *)
(*                                                                         *)
(* Time is counted in ticks of half a second, the resolution the source's  *)
(* sleep bases (1.5 s, 2 s, 3 s) need.  A text is a sequence of tokens; a  *)
(* token is a word, a digit, a punctuation mark, a blank or a line break,  *)
(* and adjacent tokens are adjacent in the text.                           *)
(***************************************************************************)
EXTENDS Integers, Sequences, FiniteSets, TLC

\* ------------------------------------------------------------------ time
TicksPerSec == 2

\* bounds of the environment
MaxJitter == 1
MaxTimeout == 61

\* time.sleep bases of the source, in ticks
PoliteBase == 4
HomeSleepBase == 3
NudgeSleepBase == 4
RefreshSleepBase == 6
BounceSleepBase == 4
RenavSleepBase == 6
PassiveWaitS == 60
ContainerWaitS == 30

Jitter == 0..MaxJitter
\* timeout_s, save_txt, save_json: short budgets with every choice of files,
\* budgets beyond the passive wait with both files
ShortTimeouts == {-1, 0, 2, 7}
LongTimeouts == (PassiveWaitS + 1)..MaxTimeout
ArgChoices == (ShortTimeouts \X BOOLEAN \X BOOLEAN) \cup (LongTimeouts \X {TRUE} \X {TRUE})

\* ------------------------------------------------------------------ text
\* Optional[...]: None is the empty sequence, a present value x is <<x>>.
None == <<>>
Some(x) == <<x>>

Min(a, b) == IF a < b THEN a ELSE b

\* The keys of month_map, in the order of their numbers.
month_map == << "january", "february", "march", "april", "may", "june", "july",
                "august", "september", "october", "november", "december" >>

\* The words of the model's texts: <<token, str.lower() of it, its form under
\* the regex flag re.I, its length in characters>>.  re.I also equates
\* U+017F (long s) with s, which str.lower() leaves alone.
WordInfo ==
  { <<"January", "january", "january", 7>>, <<"February", "february", "february", 8>>,
    <<"March", "march", "march", 5>>, <<"April", "april", "april", 5>>,
    <<"May", "may", "may", 3>>, <<"June", "june", "june", 4>>,
    <<"July", "july", "july", 4>>, <<"August", "august", "august", 6>>,
    <<"September", "september", "september", 9>>, <<"October", "october", "october", 7>>,
    <<"November", "november", "november", 8>>, <<"December", "december", "december", 8>>,
    <<"june", "june", "june", 4>>, <<"JUNE", "june", "june", 4>>,
    <<"Augu(U+017F)t", "augu(U+017F)t", "august", 6>>,
    <<"Date", "date", "date", 4>>, <<"DATE", "date", "date", 4>>,
    <<"Committee", "committee", "committee", 9>>,
    <<"Subcommittee", "subcommittee", "subcommittee", 12>>,
    <<"COMMITTEE", "committee", "committee", 9>>,
    <<"Hi", "hi", "hi", 2>>, <<"Text", "text", "text", 4>>,
    <<"Title", "title", "title", 5>>, <<"Senate", "senate", "senate", 6>>,
    <<"Hearing", "hearing", "hearing", 7>>, <<"Ag", "ag", "ag", 2>> }

IsWord(t) == \E w \in WordInfo : w[1] = t
InfoOf(t) == CHOOSE w \in WordInfo : w[1] = t
Lower(t) == IF IsWord(t) THEN InfoOf(t)[2] ELSE t
Fold(t) == IF IsWord(t) THEN InfoOf(t)[3] ELSE t
CharLen(t) == IF IsWord(t) THEN InfoOf(t)[4] ELSE 1

Digits == <<"0", "1", "2", "3", "4", "5", "6", "7", "8", "9">>
IsDigit(t) == \E i \in 1..10 : Digits[i] = t
DigitVal(t) == (CHOOSE i \in 1..10 : Digits[i] = t) - 1
IsWS(t) == t \in {" ", "\n"}
MonthNames == {month_map[i] : i \in 1..Len(month_map)}
\* the alternation MONTHS under re.I
IsMonthTok(t) == Fold(t) \in MonthNames

RECURSIVE TextLen(_)
\* len(str)
TextLen(s) == IF s = <<>> THEN 0 ELSE CharLen(Head(s)) + TextLen(Tail(s))

RECURSIVE SkipWS(_, _)
\* the position after the longest run of whitespace that starts at i (\s*)
SkipWS(s, i) == IF i <= Len(s) /\ IsWS(s[i]) THEN SkipWS(s, i + 1) ELSE i

RECURSIVE DigitRun(_, _)
\* the length of the run of digits that starts at i
DigitRun(s, i) == IF i <= Len(s) /\ IsDigit(s[i]) THEN 1 + DigitRun(s, i + 1) ELSE 0

RECURSIVE Strip(_)
\* str.strip()
Strip(s) ==
  IF s = <<>> THEN s
  ELSE IF IsWS(Head(s)) THEN Strip(Tail(s))
  ELSE IF IsWS(s[Len(s)]) THEN Strip(SubSeq(s, 1, Len(s) - 1))
  ELSE s

RECURSIVE ParseInt(_)
\* int(digits)
ParseInt(ds) ==
  IF ds = <<>> THEN 0 ELSE 10 * ParseInt(SubSeq(ds, 1, Len(ds) - 1)) + DigitVal(ds[Len(ds)])

RECURSIVE IntDigits(_)
IntDigits(n) == IF n < 10 THEN <<Digits[n + 1]>> ELSE Append(IntDigits(n \div 10), Digits[(n % 10) + 1])

RECURSIVE ZeroPad(_, _)
ZeroPad(ds, width) == IF Len(ds) >= width THEN ds ELSE ZeroPad(<<"0">> \o ds, width)
\* f"{n:0<width>d}" for n >= 0
FormatInt(n, width) == ZeroPad(IntDigits(n), width)

\* ---------------------------------------------------------------- regexes
NoMatch == [found |-> FALSE]

\* DATE_PAT anchored at position i: ({MONTHS})\s+(\d{1,2}),\s+(\d{4})
DateMatchAt(s, i) ==
  IF ~(i <= Len(s) /\ IsMonthTok(s[i])) THEN NoMatch
  ELSE LET k == SkipWS(s, i + 1)
           dr == DigitRun(s, k)
           c == k + dr
           y == SkipWS(s, c + 1)
       IN IF /\ k > i + 1
             /\ dr \in {1, 2}
             /\ c <= Len(s) /\ s[c] = ","
             /\ y > c + 1
             /\ DigitRun(s, y) >= 4
          THEN [found |-> TRUE, start |-> i, end |-> y + 3, month |-> s[i],
                day |-> SubSeq(s, k, c - 1), year |-> SubSeq(s, y, y + 3),
                text |-> SubSeq(s, i, y + 3)]
          ELSE NoMatch

RECURSIVE DatePatFrom(_, _)
DatePatFrom(s, i) ==
  IF i > Len(s) THEN NoMatch
  ELSE IF DateMatchAt(s, i).found THEN DateMatchAt(s, i) ELSE DatePatFrom(s, i + 1)
\* DATE_PAT.search(s)
DATE_PAT(s) == DatePatFrom(s, 1)

\* DATE_LINE_PAT anchored at position i: (?:Date\s*:\s*)?(<date>), the
\* optional prefix tried first; group(1) is the date.
DateLineMatchAt(s, i) ==
  LET q == SkipWS(s, i + 1)
      r == SkipWS(s, q + 1)
      prefixed == /\ i <= Len(s) /\ Fold(s[i]) = "date"
                  /\ q <= Len(s) /\ s[q] = ":"
                  /\ DateMatchAt(s, r).found
  IN IF prefixed THEN DateMatchAt(s, r) ELSE DateMatchAt(s, i)

RECURSIVE DateLinePatFrom(_, _)
DateLinePatFrom(s, i) ==
  IF i > Len(s) THEN NoMatch
  ELSE IF DateLineMatchAt(s, i).found THEN DateLineMatchAt(s, i)
  ELSE DateLinePatFrom(s, i + 1)
\* DATE_LINE_PAT.search(s)
DATE_LINE_PAT(s) == DateLinePatFrom(s, 1)

\* COMMITTEE_PAT anchored at position i: (?:Committee|Subcommittee)\s*:\s*(.+)
\* on one line; group(1) gets back one blank when nothing else follows.
CommitteeMatchAt(ln, i) ==
  LET q == SkipWS(ln, i + 1)
      r == SkipWS(ln, q + 1)
  IN IF /\ i <= Len(ln) /\ Fold(ln[i]) \in {"committee", "subcommittee"}
        /\ q <= Len(ln) /\ ln[q] = ":"
        /\ q < Len(ln)
     THEN [found |-> TRUE,
           group1 |-> IF r <= Len(ln) THEN SubSeq(ln, r, Len(ln))
                      ELSE SubSeq(ln, Len(ln), Len(ln))]
     ELSE NoMatch

RECURSIVE CommitteePatFrom(_, _)
CommitteePatFrom(ln, i) ==
  IF i > Len(ln) THEN NoMatch
  ELSE IF CommitteeMatchAt(ln, i).found THEN CommitteeMatchAt(ln, i)
  ELSE CommitteePatFrom(ln, i + 1)
\* COMMITTEE_PAT.search(ln)
COMMITTEE_PAT(ln) == CommitteePatFrom(ln, 1)

\* ------------------------------------------------------- field extraction
DateWindow == 80
CommitteeWindow == 100
TitleMinLen == 5

RECURSIVE SplitFrom(_, _)
\* str.splitlines(): the text cut at its line breaks (no empty last line)
SplitFrom(s, cur) ==
  IF s = <<>> THEN (IF cur = <<>> THEN <<>> ELSE <<cur>>)
  ELSE IF Head(s) = "\n" THEN <<cur>> \o SplitFrom(Tail(s), <<>>)
  ELSE SplitFrom(Tail(s), Append(cur, Head(s)))
SplitLines(s) == SplitFrom(s, <<>>)

RECURSIVE StripNonEmpty(_)
\* [ln.strip() for ln in lines if ln.strip()]
StripNonEmpty(ls) ==
  IF ls = <<>> THEN <<>>
  ELSE IF Strip(Head(ls)) = <<>> THEN StripNonEmpty(Tail(ls))
  ELSE <<Strip(Head(ls))>> \o StripNonEmpty(Tail(ls))
LinesOf(main_text) == StripNonEmpty(SplitLines(main_text))

RECURSIVE JoinLines(_)
\* "\n".join(lines)
JoinLines(ls) ==
  IF ls = <<>> THEN <<>>
  ELSE IF Len(ls) = 1 THEN ls[1]
  ELSE ls[1] \o <<"\n">> \o JoinLines(Tail(ls))

\* lines[:n]
Prefix(ls, n) == SubSeq(ls, 1, Min(n, Len(ls)))

TitleOfAtLeast(lines) ==
  IF lines = <<>> THEN None
  ELSE IF TextLen(lines[1]) > TitleMinLen THEN Some(lines[1])
  ELSE IF Len(lines) > 1 THEN Some(lines[2]) ELSE Some(lines[1])
\* title = lines[0] if len(lines[0]) >= 5 else (lines[1] if len(lines) > 1 else lines[0])
TitleOf(lines) ==
  IF lines = <<>> THEN None
  ELSE IF TextLen(lines[1]) >= TitleMinLen THEN Some(lines[1])
  ELSE IF Len(lines) > 1 THEN Some(lines[2]) ELSE Some(lines[1])

\* m_date = DATE_LINE_PAT.search(slice) or DATE_PAT.search(slice); group(1)
\* of the first, group(0) of the second (which has three groups, so lastindex
\* is set and group(1), the month name, is taken)
DateTextOf(lines) ==
  LET slice == JoinLines(Prefix(lines, DateWindow))
      m1 == DATE_LINE_PAT(slice)
      m2 == DATE_PAT(slice)
  IN IF m1.found THEN Some(m1.text)
     ELSE IF m2.found THEN Some(<<m2.month>>)
     ELSE None

RECURSIVE CommitteeFrom(_)
\* the first line of the window that COMMITTEE_PAT matches
CommitteeFrom(ls) ==
  IF ls = <<>> THEN None
  ELSE IF COMMITTEE_PAT(Head(ls)).found THEN Some(Strip(COMMITTEE_PAT(Head(ls)).group1))
  ELSE CommitteeFrom(Tail(ls))
CommitteeOf(lines) == CommitteeFrom(Prefix(lines, CommitteeWindow))

_extract_structured_fields(main_text) ==
  LET lines == LinesOf(main_text)
  IN [title |-> TitleOf(lines), date_text |-> DateTextOf(lines),
      committee |-> CommitteeOf(lines)]

\* month_map[month_name.lower()]: 0 stands for the KeyError of a missing key
MonthNumber(tok) ==
  IF \E i \in 1..Len(month_map) : month_map[i] = Lower(tok)
  THEN CHOOSE i \in 1..Len(month_map) : month_map[i] = Lower(tok)
  ELSE 0

\* _iso_from_date_text: [raised, value]; raised is the KeyError of month_map
_iso_from_date_text(date_text) ==
  LET m == DATE_PAT(Strip(date_text))
  IN IF date_text = <<>> \/ ~m.found THEN [raised |-> FALSE, value |-> None]
     ELSE IF MonthNumber(m.month) = 0 THEN [raised |-> TRUE, value |-> None]
     ELSE [raised |-> FALSE,
           value |-> Some(FormatInt(ParseInt(m.year), 4) \o <<"-">>
                          \o FormatInt(MonthNumber(m.month), 2) \o <<"-">>
                          \o FormatInt(ParseInt(m.day), 2))]

\* fields.get("date_text") or ""
OrEmpty(opt) == IF opt = None THEN <<>> ELSE opt[1]

\* ------------------------------------------------------------ page model
\* What the browser shows when _passed_cloudflare inspects it: a title (or
\* the failure to read it) and a body (or none) with the phrases it holds.
TitleError == "<title raises>"
Titles == {TitleError, "Hearing Text", "Just a moment...", "JUST A MOMENT..."}
BodyPhrases == {"Cloudflare", "Checking your browser", "Enable cookies"}
Bodies == {[missing |-> TRUE, phrases |-> {}]}
          \cup {[missing |-> FALSE, phrases |-> P] : P \in SUBSET BodyPhrases}
Pages == [title : Titles, body : Bodies]

\* str.lower() on the phrases of the page model
LowerPhrase(p) ==
  CASE p = "Just a moment..." -> "just a moment..."
    [] p = "JUST A MOMENT..." -> "just a moment..."
    [] p = "Hearing Text" -> "hearing text"
    [] p = "Cloudflare" -> "cloudflare"
    [] p = "Checking your browser" -> "checking your browser"
    [] p = "Enable cookies" -> "enable cookies"
    [] OTHER -> p
\* "just a moment" in title
HasChallengePhrase(title) == title \in {"just a moment...", "just a moment"}

_passed_cloudflare_lenient(page) ==
  IF page.title = TitleError THEN TRUE
  ELSE IF HasChallengePhrase(LowerPhrase(page.title)) THEN FALSE
  ELSE IF page.body.missing THEN TRUE
  ELSE LET body_text == {LowerPhrase(p) : p \in page.body.phrases}
       IN IF "cloudflare" \in body_text
             /\ ("checking your browser" \in body_text \/ "enable cookies" \in body_text)
          THEN FALSE
          ELSE TRUE
_passed_cloudflare_either(page) ==
  IF page.title = TitleError THEN FALSE
  ELSE IF HasChallengePhrase(LowerPhrase(page.title)) THEN FALSE
  ELSE IF page.body.missing THEN FALSE
  ELSE LET body_text == {LowerPhrase(p) : p \in page.body.phrases}
       IN IF "cloudflare" \in body_text
             \/ ("checking your browser" \in body_text \/ "enable cookies" \in body_text)
          THEN FALSE
          ELSE TRUE
_passed_cloudflare(page) ==
  IF page.title = TitleError THEN FALSE
  ELSE IF HasChallengePhrase(LowerPhrase(page.title)) THEN FALSE
  ELSE IF page.body.missing THEN FALSE
  ELSE LET body_text == {LowerPhrase(p) : p \in page.body.phrases}
       IN IF "cloudflare" \in body_text
             /\ ("checking your browser" \in body_text \/ "enable cookies" \in body_text)
          THEN FALSE
          ELSE TRUE

\* ------------------------------------------------------------- documents
\* A document as the extraction sees it: each container selector's element
\* is absent, present with empty text, or present with text; the body is
\* missing or has one of the sample texts.
Selectors == <<"#main", "main", "article", "#content">>
ElemStates == {"absent", "empty", "text"}
BodyStates == {"missing", "empty", "plain", "odd_date"}
Doms == [sel : [1..Len(Selectors) -> ElemStates], body : BodyStates]

SelText(i) ==
  CASE i = 1 -> <<"Senate", " ", "Hearing", "\n", "Date", ":", " ", "June", " ", "5", ",",
                  " ", "2", "0", "2", "4", "\n", "Committee", ":", " ", "Ag">>
    [] i = 2 -> <<"Hi", "\n", "Title">>
    [] i = 3 -> <<"Text">>
    [] i = 4 -> <<"Hearing">>
\* el.text.strip() of the element of selector i
ElemText(dom, i) == IF dom.sel[i] = "text" THEN SelText(i) ELSE <<>>
\* the body's text, stripped
BodyText(dom) ==
  CASE dom.body = "plain" -> <<"Hi">>
    [] dom.body = "odd_date" -> <<"Augu(U+017F)t", " ", "5", ",", " ", "2", "0", "2", "4">>
    [] OTHER -> <<>>

RECURSIVE GrabFrom(_, _)
GrabFrom(dom, i) ==
  IF i > Len(Selectors)
  THEN (IF dom.body = "missing" THEN [raised |-> TRUE, text |-> <<>>]
        ELSE [raised |-> FALSE, text |-> BodyText(dom)])
  ELSE IF dom.sel[i] # "absent" /\ ElemText(dom, i) # <<>>
       THEN [raised |-> FALSE, text |-> ElemText(dom, i)]
       ELSE GrabFrom(dom, i + 1)
\* _grab_text_from_dom: [raised, text]; raised is the body lookup failing
_grab_text_from_dom(dom) == GrabFrom(dom, 1)

\* The fallback's HTTP exchange: status 0 stands for a request (or cookie
\* read) that raised; marker is the challenge phrase as the response text
\* spells it; dom is the parsed markup.
Statuses == {0, 200, 403}
Markers == {"none", "Just a moment", "just a moment"}
Responses == [status : Statuses, marker : Markers, dom : Doms]

RECURSIVE SelectFrom(_, _)
\* soup.select_one("#main") or soup.select_one("main") or ...: the first
\* selector with an element (a Tag is truthy whatever it contains), 0 if none
SelectFrom(dom, i) ==
  IF i > Len(Selectors) THEN 0
  ELSE IF dom.sel[i] # "absent" THEN i ELSE SelectFrom(dom, i + 1)

\* _requests_with_cookies: Optional text
_requests_with_cookies(resp) ==
  IF resp.status = 0 THEN None
  ELSE IF resp.status = 200 /\ resp.marker # "Just a moment"
       THEN LET container == SelectFrom(resp.dom, 1)
            IN IF container # 0 THEN Some(ElemText(resp.dom, container))
               ELSE Some(BodyText(resp.dom))
       ELSE None

\* ------------------------------------------------------------ fetch_hearing
VARIABLES
  pc,              \* the position in fetch_hearing (or in a call of a helper)
  now,             \* time.time(), in ticks
  timeout_s, save_txt, save_json,   \* the arguments
  session,         \* the browser session: "none", "open", "quit"
  start, tries, cleared,
  wait_timed_out,  \* whether WebDriverWait(driver, 30) timed out
  dom, resp,       \* the document the DOM grab read, the fallback's exchange
  html_text, main_text, fields, date_iso, rec,
  txt_file, json_file,      \* what was written to save_txt and save_json
  pending,         \* "none", "return" or the exception in flight
  outcome,         \* "running", "returned", "raised"
  quits, used_after_quit,   \* calls of driver.quit, a driver call after it
  first_check, ever_cleared, ever_blocked,   \* history of _passed_cloudflare
  home_navs, target_navs, refreshes, bounces, grabs, fallbacks,
  inspected,       \* the page given to _passed_cloudflare when it is called alone
  \* the DOM-Expansion Harvester (a run of its own, see below)
  max_scroll_rounds, deadline, round, last_height, clicks, round_clicks,
  height, controls, triggered, rounds_log

args == <<timeout_s, save_txt, save_json>>
hist == <<first_check, ever_cleared, ever_blocked>>
navs == <<home_navs, target_navs, refreshes, bounces>>
data == <<wait_timed_out, dom, resp, html_text, main_text, fields, date_iso, rec,
          txt_file, json_file>>
ends == <<outcome, quits>>
harvest == <<max_scroll_rounds, deadline, round, last_height, clicks, round_clicks,
             height, controls, triggered, rounds_log>>
\* what fetch_hearing leaves alone
apart == <<inspected, harvest>>
vars == <<pc, now, args, apart, session, start, tries, cleared, data, pending, ends,
          used_after_quit, hist, navs, grabs, fallbacks>>

phase_deadline == start + timeout_s * TicksPerSec
sub_deadline == Min(phase_deadline, start + PassiveWaitS * TicksPerSec)

\* the documents and exchanges a run of fetch_hearing is offered
NoDom == [sel |-> <<"absent", "absent", "absent", "absent">>, body |-> "missing"]
NoResp == [status |-> 0, marker |-> "none", dom |-> NoDom]
FetchDoms ==
  { NoDom,
    [sel |-> <<"absent", "absent", "absent", "absent">>, body |-> "empty"],
    [sel |-> <<"absent", "absent", "absent", "absent">>, body |-> "plain"],
    [sel |-> <<"absent", "absent", "absent", "absent">>, body |-> "odd_date"],
    [sel |-> <<"text", "absent", "absent", "absent">>, body |-> "plain"],
    [sel |-> <<"empty", "text", "absent", "absent">>, body |-> "plain"],
    [sel |-> <<"empty", "absent", "absent", "text">>, body |-> "missing"] }
FetchResponses ==
  {r \in Responses : /\ r.dom \in FetchDoms
                     /\ r.status # 200 => (r.dom = NoDom /\ r.marker = "none")
                     /\ r.marker # "none" => (r.dom.body = "plain" /\ r.dom.sel[1] = "text")}
NoFields == [title |-> None, date_text |-> None, committee |-> None]

InitData ==
  /\ wait_timed_out = FALSE /\ dom = NoDom /\ resp = NoResp
  /\ html_text = None /\ main_text = <<>> /\ fields = NoFields
  /\ date_iso = None /\ rec = None /\ txt_file = None /\ json_file = None

\* the state of the runs that are not a call of fetch_hearing
NoPage == [title |-> TitleError, body |-> [missing |-> TRUE, phrases |-> {}]]
InitApart ==
  /\ inspected = NoPage
  /\ max_scroll_rounds = 0 /\ deadline = 0 /\ round = 0 /\ last_height = 0
  /\ clicks = 0 /\ round_clicks = 0 /\ height = 0
  /\ controls = <<>> /\ triggered = {} /\ rounds_log = <<>>

InitRun ==
  /\ now = 0 /\ session = "none" /\ start = 0 /\ tries = 0 /\ cleared = FALSE
  /\ pending = "none" /\ outcome = "running" /\ quits = 0 /\ used_after_quit = FALSE
  /\ first_check = "none" /\ ever_cleared = FALSE /\ ever_blocked = FALSE
  /\ home_navs = 0 /\ target_navs = 0 /\ refreshes = 0 /\ bounces = 0
  /\ grabs = 0 /\ fallbacks = 0

Init ==
  /\ pc = "make_chrome"
  /\ \E a \in ArgChoices : timeout_s = a[1] /\ save_txt = a[2] /\ save_json = a[3]
  /\ InitRun /\ InitData /\ InitApart

\* a call on the driver: it is a use after quit unless the session is open
DriverCall == used_after_quit' = (used_after_quit \/ session # "open")
\* an exception leaves the try block for the finally clause
Raise(e) == pending' = e /\ pc' = "finally"

\* driver = _make_chrome(headless): webdriver.Chrome may raise, before the
\* try block; a failing execute_cdp_cmd is swallowed
MakeChrome ==
  /\ pc = "make_chrome"
  /\ \/ /\ session' = "open" /\ pc' = "polite_delay"
        /\ UNCHANGED <<pending, ends>>
     \/ /\ pending' = "WebDriverException" /\ outcome' = "raised" /\ pc' = "done"
        /\ UNCHANGED <<session, quits>>
  /\ UNCHANGED <<now, args, apart, start, tries, cleared, data, used_after_quit, hist, navs, grabs, fallbacks>>

\* time.sleep(base + random.random()) at position `at`
Sleep(at, base, next) ==
  /\ pc = at
  /\ \E j \in Jitter : now' = now + base + j
  /\ pc' = next
  /\ UNCHANGED <<args, apart, session, start, tries, cleared, data, pending, ends,
                 used_after_quit, hist, navs, grabs, fallbacks>>

PoliteDelay == Sleep("polite_delay", PoliteBase, "get_home")

\* driver.get("https://www.congress.gov/")
GetHome ==
  /\ pc = "get_home"
  /\ DriverCall
  /\ home_navs' = home_navs + 1
  /\ \/ pc' = "sleep_home" /\ UNCHANGED pending
     \/ Raise("WebDriverException")
  /\ UNCHANGED <<now, args, apart, session, start, tries, cleared, data, ends, hist,
                 target_navs, refreshes, bounces, grabs, fallbacks>>

SleepHome == Sleep("sleep_home", HomeSleepBase, "get_target")

\* driver.get(url); start = time.time()
GetTarget ==
  /\ pc = "get_target"
  /\ DriverCall
  /\ target_navs' = target_navs + 1
  /\ \/ pc' = "loopA_test" /\ start' = now /\ UNCHANGED pending
     \/ Raise("WebDriverException") /\ UNCHANGED start
  /\ UNCHANGED <<now, args, apart, session, tries, cleared, data, ends, hist,
                 home_navs, refreshes, bounces, grabs, fallbacks>>

\* one evaluation of _passed_cloudflare(driver) at position `at`
Check(at, ifCleared, ifNot) ==
  /\ pc = at
  /\ DriverCall
  /\ \E page \in Pages :
       /\ cleared' = _passed_cloudflare(page)
       /\ first_check' = IF first_check # "none" THEN first_check
                         ELSE IF cleared' THEN "yes" ELSE "no"
       /\ ever_cleared' = (ever_cleared \/ cleared')
       /\ ever_blocked' = (ever_blocked \/ ~cleared')
       /\ pc' = IF cleared' THEN ifCleared ELSE ifNot
  /\ UNCHANGED <<now, args, apart, session, start, tries, data, pending, ends, navs, grabs, fallbacks>>

\* _nudge_page(driver) at position `at`: both interactions swallow failures
Nudge(at, next) ==
  /\ pc = at
  /\ DriverCall
  /\ pc' = next
  /\ UNCHANGED <<now, args, apart, session, start, tries, cleared, data, pending, ends,
                 hist, navs, grabs, fallbacks>>

\* a step that only moves on
Goto(at, next) ==
  /\ pc = at /\ pc' = next
  /\ UNCHANGED <<now, args, apart, session, start, tries, cleared, data, pending, ends,
                 used_after_quit, hist, navs, grabs, fallbacks>>

LoopATestOverall == Goto("loopA_test", IF now < phase_deadline THEN "loopA_check" ELSE "phaseB_init")
\* Phase A: while time.time() < sub_deadline
LoopATest == Goto("loopA_test", IF now < sub_deadline THEN "loopA_check" ELSE "phaseB_init")
\* if _passed_cloudflare(driver): break
LoopACheck == Check("loopA_check", "phaseB_init", "loopA_nudge")
LoopANudge == Nudge("loopA_nudge", "loopA_sleep")
LoopASleepJitterOnly == Sleep("loopA_sleep", 0, "loopA_test")
LoopASleep == Sleep("loopA_sleep", NudgeSleepBase, "loopA_test")

\* Phase B: tries = 0
PhaseBInit ==
  /\ pc = "phaseB_init" /\ tries' = 0 /\ pc' = "loopB_test"
  /\ UNCHANGED <<now, args, apart, session, start, cleared, data, pending, ends,
                 used_after_quit, hist, navs, grabs, fallbacks>>
LoopBTestInclusive == Goto("loopB_test", IF now <= phase_deadline THEN "loopB_check" ELSE "resolve")
\* while time.time() < phase_deadline and not _passed_cloudflare(driver):
\* the clock is read first, the page is inspected only before the deadline
LoopBTest == Goto("loopB_test", IF now < phase_deadline THEN "loopB_check" ELSE "resolve")
LoopBCheckInverted == Check("loopB_check", "refresh", "resolve")
LoopBCheck == Check("loopB_check", "resolve", "refresh")

\* tries += 1; driver.refresh()
Refresh ==
  /\ pc = "refresh"
  /\ DriverCall
  /\ tries' = tries + 1
  /\ refreshes' = refreshes + 1
  /\ \/ pc' = "refresh_sleep" /\ UNCHANGED pending
     \/ Raise("WebDriverException")
  /\ UNCHANGED <<now, args, apart, session, start, cleared, data, ends, hist,
                 home_navs, target_navs, bounces, grabs, fallbacks>>
RefreshSleep == Sleep("refresh_sleep", RefreshSleepBase, "refresh_nudge")
RefreshNudgeBack == Nudge("refresh_nudge", "loopA_test")
RefreshNudge == Nudge("refresh_nudge", "bounce_test")
BounceTestOdd == Goto("bounce_test", IF tries % 2 = 1 THEN "bounce_home" ELSE "loopB_test")
\* if tries % 2 == 0
BounceTest == Goto("bounce_test", IF tries % 2 = 0 THEN "bounce_home" ELSE "loopB_test")
\* driver.get("https://www.congress.gov/")
BounceHome ==
  /\ pc = "bounce_home"
  /\ DriverCall
  /\ home_navs' = home_navs + 1
  /\ bounces' = bounces + 1
  /\ \/ pc' = "bounce_sleep" /\ UNCHANGED pending
     \/ Raise("WebDriverException")
  /\ UNCHANGED <<now, args, apart, session, start, tries, cleared, data, ends, hist,
                 target_navs, refreshes, grabs, fallbacks>>
BounceSleep == Sleep("bounce_sleep", BounceSleepBase, "bounce_target")
\* driver.get(url)
BounceTarget ==
  /\ pc = "bounce_target"
  /\ DriverCall
  /\ target_navs' = target_navs + 1
  /\ \/ pc' = "renav_sleep" /\ UNCHANGED pending
     \/ Raise("WebDriverException")
  /\ UNCHANGED <<now, args, apart, session, start, tries, cleared, data, ends, hist,
                 home_navs, refreshes, bounces, grabs, fallbacks>>
RenavSleep == Sleep("renav_sleep", RenavSleepBase, "loopB_test")

\* if _passed_cloudflare(driver): ... else: ...
Resolve == Check("resolve", "wait_main", "fallback")

\* WebDriverWait(driver, 30).until(presence of #main); a timeout is swallowed
WaitMain ==
  /\ pc = "wait_main"
  /\ DriverCall
  /\ \/ wait_timed_out' = FALSE /\ UNCHANGED now
     \/ wait_timed_out' = TRUE /\ now' = now + ContainerWaitS * TicksPerSec
  /\ pc' = "grab"
  /\ UNCHANGED <<args, apart, session, start, tries, cleared, dom, resp, html_text, main_text,
                 fields, date_iso, rec, txt_file, json_file, pending, ends, hist, navs, grabs, fallbacks>>

\* main_text = _grab_text_from_dom(driver)
Grab ==
  /\ pc = "grab"
  /\ DriverCall
  /\ grabs' = grabs + 1
  /\ \E d \in FetchDoms :
       /\ dom' = d
       /\ IF _grab_text_from_dom(d).raised
          THEN Raise("WebDriverException") /\ UNCHANGED main_text
          ELSE /\ main_text' = _grab_text_from_dom(d).text
               /\ pc' = "extract" /\ UNCHANGED pending
  /\ UNCHANGED <<now, args, apart, session, start, tries, cleared, wait_timed_out, resp,
                 html_text, fields, date_iso, rec, txt_file, json_file, ends, hist,
                 navs, fallbacks>>

FallbackKeepEmpty ==
  /\ pc = "fallback"
  /\ DriverCall
  /\ fallbacks' = fallbacks + 1
  /\ \E r \in FetchResponses :
       /\ resp' = r
       /\ html_text' = _requests_with_cookies(r)
       /\ main_text' = OrEmpty(html_text')
       /\ pc' = "extract" /\ UNCHANGED pending
  /\ UNCHANGED <<now, args, apart, session, start, tries, cleared, wait_timed_out, dom,
                 fields, date_iso, rec, txt_file, json_file, ends, hist,
                 navs, grabs>>
\* html_text = _requests_with_cookies(driver, url)
\* if not html_text: raise TimeoutError(...)   (None and "" are both falsy)
Fallback ==
  /\ pc = "fallback"
  /\ DriverCall
  /\ fallbacks' = fallbacks + 1
  /\ \E r \in FetchResponses :
       /\ resp' = r
       /\ html_text' = _requests_with_cookies(r)
       /\ IF html_text' = None \/ html_text' = Some(<<>>)
          THEN Raise("TimeoutError") /\ UNCHANGED main_text
          ELSE /\ main_text' = html_text'[1]
               /\ pc' = "extract" /\ UNCHANGED pending
  /\ UNCHANGED <<now, args, apart, session, start, tries, cleared, wait_timed_out, dom,
                 fields, date_iso, rec, txt_file, json_file, ends, hist,
                 navs, grabs>>

\* fields = _extract_structured_fields(main_text)
\* date_iso = _iso_from_date_text(fields.get("date_text") or "")
\* rec = HearingRecord(...)
Extract ==
  /\ pc = "extract"
  /\ fields' = _extract_structured_fields(main_text)
  /\ LET iso == _iso_from_date_text(OrEmpty(fields'.date_text))
     IN IF iso.raised
        THEN Raise("KeyError") /\ UNCHANGED <<date_iso, rec>>
        ELSE /\ date_iso' = iso.value
             /\ rec' = Some([title |-> fields'.title, date_text |-> fields'.date_text,
                             date_iso |-> iso.value, committee |-> fields'.committee,
                             transcript |-> main_text])
             /\ pc' = "save_txt" /\ UNCHANGED pending
  /\ UNCHANGED <<now, args, apart, session, start, tries, cleared, wait_timed_out, dom, resp,
                 html_text, main_text, txt_file, json_file, ends, used_after_quit,
                 hist, navs, grabs, fallbacks>>

\* if save_txt: makedirs, open, write rec.transcript (any of which may raise)
SaveTxt ==
  /\ pc = "save_txt"
  /\ IF save_txt
     THEN \/ txt_file' = Some(rec[1].transcript) /\ pc' = "save_json" /\ UNCHANGED pending
          \/ Raise("OSError") /\ UNCHANGED txt_file
     ELSE pc' = "save_json" /\ UNCHANGED <<txt_file, pending>>
  /\ UNCHANGED <<now, args, apart, session, start, tries, cleared, wait_timed_out, dom, resp,
                 html_text, main_text, fields, date_iso, rec, json_file, ends,
                 used_after_quit, hist, navs, grabs, fallbacks>>

\* if save_json: makedirs, open, json.dump(asdict(rec)); then return rec
SaveJson ==
  /\ pc = "save_json"
  /\ IF save_json
     THEN \/ json_file' = rec /\ pending' = "return" /\ pc' = "finally"
          \/ Raise("OSError") /\ UNCHANGED json_file
     ELSE pending' = "return" /\ pc' = "finally" /\ UNCHANGED json_file
  /\ UNCHANGED <<now, args, apart, session, start, tries, cleared, wait_timed_out, dom, resp,
                 html_text, main_text, fields, date_iso, rec, txt_file, ends,
                 used_after_quit, hist, navs, grabs, fallbacks>>

FinallyOnReturnOnly ==
  /\ pc = "finally"
  /\ IF pending = "return"
     THEN session' = "quit" /\ quits' = quits + 1
     ELSE UNCHANGED <<session, quits>>
  /\ outcome' = IF pending = "return" THEN "returned" ELSE "raised"
  /\ pc' = "done"
  /\ UNCHANGED <<now, args, apart, start, tries, cleared, data, pending, used_after_quit,
                 hist, navs, grabs, fallbacks>>
\* finally: driver.quit(); then the return or the exception takes effect
Finally ==
  /\ pc = "finally"
  /\ session' = "quit" /\ quits' = quits + 1
  /\ outcome' = IF pending = "return" THEN "returned" ELSE "raised"
  /\ pc' = "done"
  /\ UNCHANGED <<now, args, apart, start, tries, cleared, data, pending, used_after_quit,
                 hist, navs, grabs, fallbacks>>

Next ==
  \/ MakeChrome \/ PoliteDelay \/ GetHome \/ SleepHome \/ GetTarget
  \/ LoopATest \/ LoopACheck \/ LoopANudge \/ LoopASleep
  \/ PhaseBInit \/ LoopBTest \/ LoopBCheck
  \/ Refresh \/ RefreshSleep \/ RefreshNudge \/ BounceTest
  \/ BounceHome \/ BounceSleep \/ BounceTarget \/ RenavSleep
  \/ Resolve \/ WaitMain \/ Grab \/ Fallback
  \/ Extract \/ SaveTxt \/ SaveJson \/ Finally

Spec == Init /\ [][Next]_vars

\* ------------------------------------------- the field helpers on their own
\* Calls of _extract_structured_fields and _iso_from_date_text on texts drawn
\* from bounded sets: main_text holds the argument, fields and date_iso the
\* results, pending the exit ("return" or "KeyError").
MaxDay == 32
MaxLines == 3

DayChoices ==
  {IntDigits(n) : n \in 0..MaxDay} \cup {ZeroPad(IntDigits(n), 2) : n \in 0..9}
    \cup {<<>>, <<"1", "2", "3">>}
YearChoices ==
  { <<"2", "0", "2", "4">>, <<"2", "0", "2", "3">>, <<"1", "9", "0", "0">>,
    <<"2", "0", "0", "0">>, <<"0", "0", "0", "7">>, <<"2", "0", "2">> }
MonthChoices == {"February", "April", "June", "JUNE", "june", "December", "Augu(U+017F)t", "Hi"}
DateTexts ==
  { pre \o <<mo>> \o sep1 \o day \o comma \o sep2 \o year \o post :
      pre \in {<<>>, <<"Date", ":", " ">>},
      mo \in MonthChoices,
      sep1 \in {<<>>, <<" ">>, <<"\n", " ">>},
      day \in DayChoices,
      comma \in {<<>>, <<",">>},
      sep2 \in {<<>>, <<" ">>},
      year \in YearChoices,
      post \in {<<>>, <<"5">>} }

LinePool ==
  { <<>>, <<" ">>, <<"Hi">>, <<"Text">>, <<"Title">>, <<" ", "Hi", " ">>,
    <<"Senate", " ", "Hearing">>,
    <<"Date", ":", " ", "June", " ", "5", ",", " ", "2", "0", "2", "4">>,
    <<"Augu(U+017F)t", " ", "5", ",", " ", "2", "0", "2", "4">>,
    <<"Committee", ":", " ", "Ag">>, <<"Subcommittee", " ", ":">> }
RECURSIVE TextsOf(_)
\* the texts of at most n lines of the pool
TextsOf(n) ==
  IF n = 0 THEN {<<>>}
  ELSE TextsOf(n - 1) \cup {t \o <<"\n">> \o ln : t \in TextsOf(n - 1), ln \in LinePool}
                      \cup LinePool
FieldTexts == TextsOf(MaxLines)

InitFields ==
  /\ pc = "call"
  /\ main_text \in DateTexts \cup FieldTexts
  /\ timeout_s = 0 /\ save_txt = FALSE /\ save_json = FALSE
  /\ InitRun /\ InitApart
  /\ wait_timed_out = FALSE /\ dom = NoDom /\ resp = NoResp
  /\ html_text = None /\ fields = NoFields
  /\ date_iso = None /\ rec = None /\ txt_file = None /\ json_file = None

\* fields = _extract_structured_fields(main_text)
CallExtract ==
  /\ pc = "call"
  /\ fields' = _extract_structured_fields(main_text)
  /\ pc' = "extracted"
  /\ UNCHANGED <<now, args, apart, session, start, tries, cleared, wait_timed_out, dom, resp,
                 html_text, main_text, date_iso, rec, txt_file, json_file, pending, ends,
                 used_after_quit, hist, navs, grabs, fallbacks>>

\* a call of _iso_from_date_text(text) at position `at`
IsoCall(at, text, next) ==
  /\ pc = at
  /\ date_iso' = _iso_from_date_text(text).value
  /\ pending' = IF _iso_from_date_text(text).raised THEN "KeyError" ELSE "return"
  /\ pc' = next
  /\ UNCHANGED <<now, args, apart, session, start, tries, cleared, wait_timed_out, dom, resp,
                 html_text, main_text, fields, rec, txt_file, json_file, ends,
                 used_after_quit, hist, navs, grabs, fallbacks>>
\* date_iso = _iso_from_date_text(fields.get("date_text") or "")
CallIsoOfFields == IsoCall("extracted", OrEmpty(fields.date_text), "normalised")
\* _iso_from_date_text(main_text)
CallIso == IsoCall("call", main_text, "iso_done")

NextFields == CallExtract \/ CallIsoOfFields \/ CallIso

SpecFields == InitFields /\ [][NextFields]_vars

\* ------------------------------------------- the two extractions on their own
\* _grab_text_from_dom and _requests_with_cookies given the same document:
\* dom holds the document, resp the exchange that delivers it, main_text and
\* pending the result of the DOM grab, html_text that of the fallback.
InitTransport ==
  /\ pc = "call"
  /\ dom \in Doms
  /\ \E r \in Responses : r.dom = dom /\ resp = r
  /\ timeout_s = 0 /\ save_txt = FALSE /\ save_json = FALSE
  /\ InitRun /\ InitApart
  /\ wait_timed_out = FALSE
  /\ html_text = None /\ main_text = <<>> /\ fields = NoFields
  /\ date_iso = None /\ rec = None /\ txt_file = None /\ json_file = None

\* main_text = _grab_text_from_dom(driver)
CallGrab ==
  /\ pc = "call"
  /\ main_text' = _grab_text_from_dom(dom).text
  /\ pending' = IF _grab_text_from_dom(dom).raised THEN "WebDriverException" ELSE "return"
  /\ pc' = "grabbed"
  /\ UNCHANGED <<now, args, apart, session, start, tries, cleared, wait_timed_out, dom, resp,
                 html_text, fields, date_iso, rec, txt_file, json_file, ends,
                 used_after_quit, hist, navs, grabs, fallbacks>>

\* html_text = _requests_with_cookies(driver, url)
CallRequests ==
  /\ pc = "grabbed"
  /\ html_text' = _requests_with_cookies(resp)
  /\ pc' = "fetched"
  /\ UNCHANGED <<now, args, apart, session, start, tries, cleared, wait_timed_out, dom, resp,
                 main_text, fields, date_iso, rec, txt_file, json_file, pending, ends,
                 used_after_quit, hist, navs, grabs, fallbacks>>

NextTransport == CallGrab \/ CallRequests

SpecTransport == InitTransport /\ [][NextTransport]_vars

\* ---------------------------------------- the cleared predicate on its own
\* The three evaluations of _passed_cloudflare in fetch_hearing, each on a
\* page that is given: inspected holds the page, cleared the result.
InitCleared ==
  /\ pc \in {"loopA_check", "loopB_check", "resolve"}
  /\ inspected \in Pages
  /\ timeout_s = 7 /\ save_txt = FALSE /\ save_json = FALSE
  /\ now = 0 /\ session = "open" /\ start = 0 /\ tries = 0 /\ cleared = FALSE
  /\ pending = "none" /\ outcome = "running" /\ quits = 0 /\ used_after_quit = FALSE
  /\ first_check = "none" /\ ever_cleared = FALSE /\ ever_blocked = FALSE
  /\ home_navs = 1 /\ target_navs = 1 /\ refreshes = 0 /\ bounces = 0
  /\ grabs = 0 /\ fallbacks = 0
  /\ InitData
  /\ max_scroll_rounds = 0 /\ deadline = 0 /\ round = 0 /\ last_height = 0
  /\ clicks = 0 /\ round_clicks = 0 /\ height = 0
  /\ controls = <<>> /\ triggered = {} /\ rounds_log = <<>>

\* the evaluation `check` of fetch_hearing when the browser shows the page
\* inspected
OnInspected(check) == check /\ cleared' = _passed_cloudflare(inspected)
\* if _passed_cloudflare(driver): break
PollInspected == OnInspected(LoopACheck)
\* while ... and not _passed_cloudflare(driver):
RetestInspected == OnInspected(LoopBCheck)
\* if _passed_cloudflare(driver): ... else: ...
ResolveInspected == OnInspected(Resolve)

NextCleared == PollInspected \/ RetestInspected \/ ResolveInspected

SpecCleared == InitCleared /\ [][NextCleared]_vars

\* ------------------------------------------------ DOM-Expansion Harvester
\* The convergence loop of specification section 4.3, whose code is not among
\* the sources: modelled from the specification's text.  A run uses pc, now
\* and the harvester's variables; the clock counts the pauses of the loop.
MaxRounds == 4
MaxHeight == 3
MaxBudget == 5
\* the click budgets of the "more" expansion: of a round, of the final pass
MoreBudget == 3
FinalMoreBudget == 1

\* The controls a page may hold, with what a query reads of each: whether it
\* matches a collapsible-widget pattern, whether its text contains "more",
\* and its href (none, a local anchor, a navigation target).
ControlIds == 1..5
IsToggle(c) == c \in {1, 2, 3}
IsMore(c) == c \in {3, 4, 5}
Href(c) ==
  CASE c = 2 -> <<"#", "panel">>
    [] c = 3 -> <<"https://other.example/page">>
    [] c = 4 -> <<"https://other.example/page">>
    [] OTHER -> <<>>
\* an href that does not start with the local anchor marker
NonFragmentHref(c) == Href(c) # <<>> /\ Href(c)[1] # "#"

\* a control is absent, shown, shown but invisible, shown but disabled, or
\* (a toggle) marked aria-expanded=true
ControlStates == {"absent", "shown", "invisible", "disabled", "expanded"}
InDom(cs, c) == cs[c] # "absent"
Absent(cs) == {c \in ControlIds : cs[c] = "absent"}

\* step 1: the collapsible widgets that are not marked expanded and carry no
\* non-fragment navigation target
ToggleCandidates(cs) ==
  {c \in ControlIds : IsToggle(c) /\ InDom(cs, c) /\ cs[c] # "expanded" /\ ~NonFragmentHref(c)}
MoreCandidatesAnyHref(cs) ==
  {c \in ControlIds : IsMore(c) /\ cs[c] \in {"shown", "expanded"}}
\* step 2: the "more" controls that are visible, enabled and no real
\* navigation link
MoreCandidates(cs) ==
  {c \in ControlIds : IsMore(c) /\ cs[c] \in {"shown", "expanded"} /\ ~NonFragmentHref(c)}

\* what is left unchanged by the harvester
fetch == <<args, inspected, session, start, tries, cleared, data, pending, ends,
           used_after_quit, hist, navs, grabs, fallbacks>>

StartControls == [ControlIds -> {"absent", "shown"}] \cup
                 { [c \in ControlIds |-> IF c = 5 THEN "disabled" ELSE "shown"],
                   [c \in ControlIds |-> IF c = 5 THEN "invisible" ELSE "absent"],
                   [c \in ControlIds |-> IF c = 1 THEN "expanded" ELSE "shown"] }

InitHarvest ==
  /\ pc = "h_navigate"
  /\ timeout_s = 0 /\ save_txt = FALSE /\ save_json = FALSE
  /\ InitRun /\ InitData
  /\ inspected = NoPage
  /\ max_scroll_rounds \in {1, 3, MaxRounds}
  /\ deadline \in {0, 2, MaxBudget}
  /\ round = 0 /\ last_height = 0 /\ clicks = 0 /\ round_clicks = 0
  /\ height = 1
  /\ controls \in StartControls
  /\ triggered = {} /\ rounds_log = <<>>

\* the page after the controls of `ok` were triggered and those of `rev`
\* came into view: a triggered toggle is marked expanded, a triggered "more"
\* control goes away or stays (`stay`)
AfterClicks(cs, ok, rev, stay) ==
  [c \in ControlIds |->
     IF c \in ok THEN (IF IsToggle(c) THEN "expanded"
                       ELSE IF c \in stay THEN "shown" ELSE "absent")
     ELSE IF c \in rev THEN "shown"
     ELSE cs[c]]

\* Safe-Click on every control of `cands`: each is clicked (directly or by
\* the script-driven retry) or reported not clicked; a click may bring
\* controls into view
ClickAll(cands, budget) ==
  \E ok \in SUBSET cands : \E rev \in SUBSET Absent(controls) : \E stay \in SUBSET ok :
    /\ Cardinality(ok) <= budget
    /\ (ok = {} => rev = {})
    /\ controls' = AfterClicks(controls, ok, rev, stay)
    /\ triggered' = triggered \cup ok
    /\ clicks' = clicks + Cardinality(ok)
    /\ round_clicks' = round_clicks + Cardinality(ok)

\* navigation to the URL: on a timeout or a missing body what there is is
\* returned
HNavigate ==
  /\ pc = "h_navigate"
  /\ \/ pc' = "h_round_test"
     \/ pc' = "h_return"
  /\ UNCHANGED <<now, fetch, harvest>>

\* the head of the round loop: up to max rounds, each checked against the
\* overall deadline before it starts
RoundTest ==
  /\ pc = "h_round_test"
  /\ IF round < max_scroll_rounds /\ now < deadline
     THEN round' = round + 1 /\ round_clicks' = 0 /\ pc' = "h_toggles"
     ELSE pc' = "h_final" /\ UNCHANGED <<round, round_clicks>>
  /\ UNCHANGED <<now, fetch, max_scroll_rounds, deadline, last_height, clicks,
                 height, controls, triggered, rounds_log>>

\* step 1, toggle expansion
ToggleExpansion ==
  /\ pc = "h_toggles"
  /\ ClickAll(ToggleCandidates(controls), Cardinality(ControlIds))
  /\ pc' = "h_more"
  /\ UNCHANGED <<now, fetch, max_scroll_rounds, deadline, round, last_height,
                 height, rounds_log>>

\* step 2, one pass of the "more" expansion: click what is found, query
\* again; it ends when a pass clicks nothing or the budget is used up
MoreExpansion ==
  /\ pc = "h_more"
  /\ ClickAll(MoreCandidates(controls), MoreBudget)
  /\ pc' = IF triggered' = triggered \/ round_clicks' >= MoreBudget
           THEN "h_scroll" ELSE "h_more"
  /\ UNCHANGED <<now, fetch, max_scroll_rounds, deadline, round, last_height,
                 height, rounds_log>>

\* step 3, lazy-load stimulation: scroll to the bottom, pause, measure
LazyLoad ==
  /\ pc = "h_scroll"
  /\ \E grow \in {0, 1} : height' = IF height + grow > MaxHeight THEN height ELSE height + grow
  /\ \E rev \in SUBSET Absent(controls) :
       /\ Cardinality(rev) <= 1
       /\ controls' = AfterClicks(controls, {}, rev, {})
  /\ now' = now + 1
  /\ pc' = "h_converge"
  /\ UNCHANGED <<fetch, max_scroll_rounds, deadline, round, last_height, clicks,
                 round_clicks, triggered, rounds_log>>

ConvergenceCheckCumulative ==
  /\ pc = "h_converge"
  /\ rounds_log' = Append(rounds_log, [height |-> height, clicked |-> round_clicks])
  /\ IF height = last_height /\ clicks = 0
     THEN pc' = "h_final" /\ UNCHANGED last_height
     ELSE pc' = "h_round_test" /\ last_height' = height
  /\ UNCHANGED <<now, fetch, max_scroll_rounds, deadline, round, clicks,
                 round_clicks, height, controls, triggered>>
\* step 4, convergence check: stop when the height is that of the previous
\* round and no control was clicked this round
ConvergenceCheck ==
  /\ pc = "h_converge"
  /\ rounds_log' = Append(rounds_log, [height |-> height, clicked |-> round_clicks])
  /\ IF height = last_height /\ round_clicks = 0
     THEN pc' = "h_final" /\ UNCHANGED last_height
     ELSE pc' = "h_round_test" /\ last_height' = height
  /\ UNCHANGED <<now, fetch, max_scroll_rounds, deadline, round, clicks,
                 round_clicks, height, controls, triggered>>

\* the final best-effort pass (toggles and "more" controls, tighter click
\* budget), budget permitting; then the markup is returned
FinalPass ==
  /\ pc = "h_final"
  /\ IF now < deadline
     THEN ClickAll(ToggleCandidates(controls) \cup MoreCandidates(controls), FinalMoreBudget)
     ELSE UNCHANGED <<controls, triggered, clicks, round_clicks>>
  /\ pc' = "h_return"
  /\ UNCHANGED <<now, fetch, max_scroll_rounds, deadline, round, last_height,
                 height, rounds_log>>

HReturn ==
  /\ pc = "h_return" /\ pc' = "h_done"
  /\ UNCHANGED <<now, fetch, harvest>>

NextHarvest ==
  \/ HNavigate \/ RoundTest \/ ToggleExpansion \/ MoreExpansion \/ LazyLoad
  \/ ConvergenceCheck \/ FinalPass \/ HReturn

SpecHarvest == InitHarvest /\ [][NextHarvest]_vars

\* ------------------------------------------------------------------ claims
Done == pc = "done"
TheRecord == rec[1]
\* the phase a position belongs to: warm-up, passive wait, refresh
\* escalation, resolution or fallback, and what follows
PhaseOf(p) ==
  CASE p \in {"make_chrome", "polite_delay", "get_home", "sleep_home", "get_target"} -> 1
    [] p \in {"loopA_test", "loopA_check", "loopA_nudge", "loopA_sleep"} -> 2
    [] p \in {"phaseB_init", "loopB_test", "loopB_check", "refresh", "refresh_sleep",
              "refresh_nudge", "bounce_test", "bounce_home", "bounce_sleep",
              "bounce_target", "renav_sleep"} -> 3
    [] p \in {"resolve", "wait_main", "grab", "fallback"} -> 4
    [] OTHER -> 5

\* C1 as stated: once the first evaluation of the cleared predicate is true,
\* the call never refreshes, never bounces through the homepage and never
\* calls the fallback transport, whatever the later evaluations return.
C1_FirstCheckDecides ==
  first_check = "yes" => (refreshes = 0 /\ bounces = 0 /\ fallbacks = 0)

\* C1 amended: when the cleared predicate is true at its first evaluation and
\* at every later evaluation of the call, the call never refreshes, never
\* bounces through the homepage and never calls the fallback transport.
C1_AlwaysClearedNoEscalation ==
  (first_check = "yes" /\ ~ever_blocked) => (refreshes = 0 /\ bounces = 0 /\ fallbacks = 0)
C1_Witness ==
  Done /\ first_check = "yes" /\ ~ever_blocked /\ grabs = 1 /\ outcome = "returned"

\* C2 as stated: when the cleared predicate is never true and the fallback
\* gets an HTTP 200 response without challenge markers, the call returns a
\* record whose transcript is the text extracted from that response and no
\* timeout error is raised (runs stopped by a failing file write or by the
\* KeyError of the date normalisation are left aside).
C2_FallbackTranscript ==
  (/\ Done /\ ~ever_cleared /\ fallbacks = 1
   /\ resp.status = 200 /\ resp.marker = "none"
   /\ pending \notin {"OSError", "KeyError"})
  => (/\ outcome = "returned" /\ pending = "return"
      /\ rec # None /\ html_text # None
      /\ TheRecord.transcript = html_text[1])

C4_DeadlineHonored ==
  [][(pc \in {"refresh", "bounce_home", "bounce_target"} /\ pc' # pc)
       => now < phase_deadline]_vars

\* C5: once the session is acquired it is open until the call ends, the call
\* ends with driver.quit called exactly once on every exit path, and no
\* driver call is made after quit.
C5_SessionReleased ==
  /\ quits <= 1
  /\ ~used_after_quit
  /\ (session # "none" /\ ~Done) => (session = "open" /\ quits = 0)
  /\ (session # "none" /\ Done) => (session = "quit" /\ quits = 1)
  /\ session = "none" => (quits = 0 /\ pc \in {"make_chrome", "done"})
C5_Witness ==
  Done /\ session = "quit" /\ quits = 1 /\ pending = "OSError" /\ outcome = "raised"

\* C6: the phases run in order and never go back: the homepage is loaded
\* before the target is first loaded, no refresh or bounce has happened while
\* the passive wait is running, the DOM grab and the fallback start only
\* after the refresh loop, and a call performs at most one of them, once
\* (exactly one once the resolution step has chosen).
C6_PhaseOrder ==
  /\ [](/\ target_navs > 0 => home_navs > 0
        /\ PhaseOf(pc) <= 2 => (refreshes = 0 /\ bounces = 0)
        /\ PhaseOf(pc) <= 3 => (grabs = 0 /\ fallbacks = 0)
        /\ grabs + fallbacks <= 1
        /\ pc \in {"extract", "save_txt", "save_json"} => grabs + fallbacks = 1
        /\ (Done /\ pending \in {"return", "TimeoutError", "KeyError", "OSError"})
             => grabs + fallbacks = 1)
  /\ [][PhaseOf(pc') >= PhaseOf(pc)]_vars
C6_Witness ==
  Done /\ refreshes >= 2 /\ bounces >= 1 /\ grabs = 1 /\ outcome = "returned"

\* C7 as stated: when the cleared predicate holds at the resolution step and
\* the body can be read, the call returns a record whose transcript is the
\* text of the first of #main, main, article, #content that exists with
\* non-empty text, else the body text (runs stopped by a failing file write
\* are left aside).
C7_ContainerAbsenceNotFatal ==
  (Done /\ grabs = 1 /\ dom.body # "missing" /\ pending # "OSError")
  => (/\ outcome = "returned" /\ rec # None
      /\ \/ \E i \in 1..4 : /\ dom.sel[i] = "text"
                            /\ \A k \in 1..(i - 1) : dom.sel[k] # "text"
                            /\ TheRecord.transcript = SelText(i)
         \/ /\ \A i \in 1..4 : dom.sel[i] # "text"
            /\ TheRecord.transcript = BodyText(dom))
\* what holds of the code: the same, for the runs the date normalisation
\* does not stop
C7_ExceptKeyError ==
  (pending # "KeyError") => C7_ContainerAbsenceNotFatal

\* the reading of an ISO-8601 calendar date, YYYY-MM-DD
IsoForm(iso) ==
  /\ Len(iso) = 10
  /\ iso[5] = "-" /\ iso[8] = "-"
  /\ \A i \in {1, 2, 3, 4, 6, 7, 9, 10} : IsDigit(iso[i])
IsoYear(iso) == ParseInt(SubSeq(iso, 1, 4))
IsoMonth(iso) == ParseInt(SubSeq(iso, 6, 7))
IsoDay(iso) == ParseInt(SubSeq(iso, 9, 10))
IsLeap(y) == (y % 4 = 0 /\ y % 100 # 0) \/ y % 400 = 0
DaysInMonth(y, m) ==
  IF m = 2 THEN (IF IsLeap(y) THEN 29 ELSE 28)
  ELSE IF m \in {4, 6, 9, 11} THEN 30 ELSE 31
ValidDate(y, m, d) == m \in 1..12 /\ d \in 1..DaysInMonth(y, m)
\* the number of a month name of the text, letter case ignored
MonthOfName(tok) == CHOOSE i \in 1..12 : month_map[i] = Fold(tok)

\* what holds of the code: a value returned has the form YYYY-MM-DD with the
\* year, the month number and the day number of the first month-day-year
\* pattern of the text, and a text without the pattern yields no value.
C8_SameComponents ==
  (pc = "iso_done" /\ pending = "return")
  => LET m == DATE_PAT(Strip(main_text))
     IN IF ~m.found THEN date_iso = None
        ELSE /\ date_iso # None
             /\ IsoForm(date_iso[1])
             /\ IsoYear(date_iso[1]) = ParseInt(m.year)
             /\ IsoMonth(date_iso[1]) = MonthOfName(m.month)
             /\ IsoDay(date_iso[1]) = ParseInt(m.day)

\* C8 as stated: every value _iso_from_date_text returns has the form
\* YYYY-MM-DD, has the year, month and day of the date text, and denotes a
\* valid calendar date; a text without the pattern yields no value.
C8_RoundTrip ==
  /\ C8_SameComponents
  /\ (pc = "iso_done" /\ pending = "return" /\ date_iso # None)
     => ValidDate(IsoYear(date_iso[1]), IsoMonth(date_iso[1]), IsoDay(date_iso[1]))

\* C9: over the non-empty trimmed lines of the text, the title is the first
\* line when it has at least 5 characters; when it has fewer, the second line
\* if there is one, else the first line; with no lines the title is absent.
C9_TitleSelection ==
  pc \in {"extracted", "normalised"}
  => LET lines == LinesOf(main_text)
     IN /\ lines = <<>> => fields.title = None
        /\ (lines # <<>> /\ TextLen(lines[1]) >= 5) => fields.title = Some(lines[1])
        /\ (lines # <<>> /\ TextLen(lines[1]) < 5 /\ Len(lines) >= 2)
             => fields.title = Some(lines[2])
        /\ (Len(lines) = 1 /\ TextLen(lines[1]) < 5) => fields.title = Some(lines[1])
C9_Witness ==
  /\ pc = "extracted"
  /\ LinesOf(main_text) = << <<"Hi">>, <<"Senate", " ", "Hearing">> >>
  /\ fields.title = Some(<<"Senate", " ", "Hearing">>)

\* what holds of the code: the fields that are not found are absent
C10_AbsentFields ==
  pc \in {"extracted", "normalised"}
  => /\ LinesOf(main_text) = <<>> => fields.title = None
     /\ ~DATE_PAT(JoinLines(LinesOf(main_text))).found => fields.date_text = None
     /\ (\A i \in 1..Len(LinesOf(main_text)) : ~COMMITTEE_PAT(LinesOf(main_text)[i]).found)
          => fields.committee = None
     /\ (pc = "normalised" /\ fields.date_text = None) => date_iso = None

\* C10 as stated: for every text, _extract_structured_fields and
\* _iso_from_date_text return normally, and each field that is not found is
\* an absent value.
C10_NeverRaises ==
  /\ C10_AbsentFields
  /\ pc \in {"normalised", "iso_done"} => pending = "return"

\* C11: in the round loop of the harvester, a round (from the second on)
\* that measures the height of the previous round and clicks no control is
\* the last round: the loop is left after it.  So when the height is
\* unchanged after round 2 and round 3 clicks nothing, the loop stops at
\* round 3 and runs fewer rounds than a max_scroll_rounds above 3 allows.
InRoundLoop == pc \in {"h_round_test", "h_toggles", "h_more", "h_scroll", "h_converge"}
FixedPointAt(i) ==
  /\ rounds_log[i].height = rounds_log[i - 1].height
  /\ rounds_log[i].clicked = 0
C11_StopsAtFixedPoint ==
  /\ \A i \in 2..Len(rounds_log) :
       FixedPointAt(i) => (i = Len(rounds_log) /\ round = i /\ ~InRoundLoop)
  /\ (Len(rounds_log) >= 3 /\ FixedPointAt(3))
       => (round = 3 /\ ~InRoundLoop /\ (max_scroll_rounds > 3 => round < max_scroll_rounds))
C11_Witness ==
  /\ pc = "h_done" /\ Len(rounds_log) = 3 /\ FixedPointAt(3)
  /\ rounds_log[2].clicked > 0
  /\ max_scroll_rounds = MaxRounds /\ now < deadline

\* C12: a control whose href is a non-fragment navigation target is in
\* neither candidate set (toggle, "more") of any round or of the final pass
\* and is never triggered.
C12_NoNavigationClick ==
  \A c \in ControlIds :
    NonFragmentHref(c) => /\ c \notin ToggleCandidates(controls)
                          /\ c \notin MoreCandidates(controls)
                          /\ c \notin triggered
C12_Witness ==
  /\ pc = "h_done" /\ round >= 2 /\ now < deadline
  /\ controls[3] = "shown" /\ controls[4] = "shown"
  /\ {1, 5} \subseteq triggered

\* what holds of the code: for a document in which every container that
\* exists has text, the fallback returns the text the DOM grab returns
Accepted == resp.status = 200 /\ resp.marker # "Just a moment"
C13_SameWithoutEmptyContainer ==
  (/\ pc = "fetched" /\ Accepted /\ pending = "return"
   /\ \A i \in 1..Len(Selectors) : dom.sel[i] # "empty")
  => html_text = Some(main_text)

\* C13 as stated: for every document whose body can be read, an accepted
\* fallback response with that document yields the text the DOM grab returns
\* for it: that of the first of #main, main, article, #content with text,
\* else the whole-document text, also when an earlier container exists with
\* empty text.
C13_SameSelection ==
  (pc = "fetched" /\ Accepted /\ pending = "return")
  => html_text = Some(main_text)

\* C14 as stated: when the fallback's response spells the challenge phrase
\* in any letter case (a page on which the cleared predicate is false),
\* _requests_with_cookies returns no text and fetch_hearing raises the
\* timeout error and builds no record.
C14_ChallengeRejected ==
  (Done /\ fallbacks = 1 /\ resp.marker # "none")
  => (html_text = None /\ pending = "TimeoutError" /\ outcome = "raised" /\ rec = None)

\* the inspection of the page fails: the title read raises, or the body
\* element is missing or its text cannot be read
InspectionFails == inspected.title = TitleError \/ inspected.body.missing
Inspected == first_check # "none"

\* C15: an evaluation of _passed_cloudflare whose inspection of the page
\* fails raises nothing and yields not cleared, and fetch_hearing goes on as
\* for an uncleared page: to the nudge of the passive wait, to the refresh
\* of the refresh loop, to the fallback at the resolution step.
C15_FailureIsNotCleared ==
  (Inspected /\ InspectionFails)
  => /\ ~cleared /\ first_check = "no"
     /\ pending = "none" /\ outcome = "running"
     /\ pc \in {"loopA_nudge", "refresh", "fallback"}
C15_Witness ==
  /\ Inspected /\ inspected.title = "Hearing Text" /\ inspected.body.missing
  /\ ~cleared /\ pc = "refresh"

\* C16: on a page that can be inspected, _passed_cloudflare is true exactly
\* when the title does not contain the challenge phrase (in any letter case)
\* and the body does not contain both the provider name and one of
\* "checking your browser", "enable cookies"; the provider name alone or a
\* phrase alone counts as cleared.
TitleHasChallenge == inspected.title \in {"Just a moment...", "JUST A MOMENT..."}
BodyHasChallenge ==
  /\ "Cloudflare" \in inspected.body.phrases
  /\ inspected.body.phrases \cap {"Checking your browser", "Enable cookies"} # {}
C16_ClearedExactly ==
  (Inspected /\ ~InspectionFails)
  => (cleared <=> (~TitleHasChallenge /\ ~BodyHasChallenge))
C16_Witness ==
  /\ Inspected /\ cleared /\ pc = "wait_main"
  /\ inspected.title = "Hearing Text"
  /\ ~inspected.body.missing /\ inspected.body.phrases = {"Cloudflare"}

\* C17: in the refresh loop the homepage bounce follows every second refresh
\* and no other: whenever k refreshes are complete (at the loop head and
\* after the loop) floor(k/2) bounces have been made, each a navigation to
\* the homepage and a re-navigation to the target; a bounce starts only in
\* the iteration of an even-numbered refresh, after that refresh and its
\* nudge.
AfterRefreshLoop == pc \in {"resolve", "wait_main", "grab", "fallback", "extract", "save_txt", "save_json"}
C17_BounceEverySecondRefresh ==
  /\ [](/\ (pc \in {"loopB_test", "loopB_check", "refresh"} \/ AfterRefreshLoop)
            => (/\ bounces = refreshes \div 2
                /\ home_navs = 1 + bounces /\ target_navs = 1 + bounces)
        /\ pc \in {"loopB_test", "loopB_check", "refresh"} => tries = refreshes
        /\ pc \in {"refresh_sleep", "refresh_nudge", "bounce_test", "bounce_home"}
            => (bounces = (refreshes - 1) \div 2 /\ tries = refreshes)
        /\ pc \in {"bounce_home", "bounce_sleep", "bounce_target", "renav_sleep"}
            => refreshes % 2 = 0
        /\ pc \in {"bounce_sleep", "bounce_target", "renav_sleep"}
            => bounces = refreshes \div 2)
  /\ [][/\ bounces' # bounces
            => (pc = "bounce_home" /\ bounces' = bounces + 1 /\ refreshes % 2 = 0 /\ refreshes > 0)
        /\ (pc' = "bounce_home" /\ pc # "bounce_home") => pc = "bounce_test"
        /\ (pc' = "bounce_test" /\ pc # "bounce_test") => pc = "refresh_nudge"
        /\ (pc' = "refresh_nudge" /\ pc # "refresh_nudge") => pc = "refresh_sleep"
        /\ (pc' = "refresh_sleep" /\ pc # "refresh_sleep")
            => (pc = "refresh" /\ refreshes' = refreshes + 1)]_vars
C17_Witness ==
  pc = "loopB_test" /\ refreshes = 5 /\ bounces = 2 /\ target_navs = 3

\* C18: in the passive wait a poll begins only while the clock is before
\* min(start + timeout_s, start + 60 s); a poll that finds the page
\* uncleared is followed by one nudge and then one sleep of at least 2 s
\* before the next test of the clock; the first poll that finds the page
\* cleared leaves the phase, with no nudge and no sleep of the phase after
\* it.
C18_PassiveWait ==
  /\ [](pc \in {"loopA_nudge", "loopA_sleep"} => ~cleared)
  /\ [][/\ (pc = "loopA_check" /\ pc' # pc)
            => /\ now < Min(start + timeout_s * TicksPerSec, start + 60 * TicksPerSec)
               /\ pc' = IF cleared' THEN "phaseB_init" ELSE "loopA_nudge"
        /\ pc = "loopA_nudge" => (pc' = "loopA_sleep" /\ now' = now)
        /\ pc = "loopA_sleep" => (pc' = "loopA_test" /\ now' >= now + 2 * TicksPerSec)
        /\ (pc' = "loopA_nudge" /\ pc # pc') => (pc = "loopA_check" /\ ~cleared')
        /\ (pc' = "loopA_sleep" /\ pc # pc') => pc = "loopA_nudge"
        /\ PhaseOf(pc) >= 3 => PhaseOf(pc') >= 3]_vars
C18_Witness ==
  /\ pc = "phaseB_init" /\ cleared /\ first_check = "no"
  /\ timeout_s = 7 /\ now > start + 2 * NudgeSleepBase

\* C20: with timeout_s at most 60 a call in which the predicate is never
\* true makes no refresh and no homepage bounce, and goes from the passive
\* wait to the fallback; with timeout_s at most 0 no loop body runs and the
\* one evaluation of the predicate, at the resolution step, decides between
\* the DOM grab and the fallback.
InLoopBody ==
  pc \in {"loopA_check", "loopA_nudge", "loopA_sleep", "loopB_check", "refresh",
          "refresh_sleep", "refresh_nudge", "bounce_test", "bounce_home",
          "bounce_sleep", "bounce_target", "renav_sleep"}
C20_ShortBudget ==
  /\ (timeout_s <= 60 /\ ~ever_cleared)
     => /\ refreshes = 0 /\ bounces = 0 /\ grabs = 0
        /\ PhaseOf(pc) = 3 => pc \in {"phaseB_init", "loopB_test"}
        /\ (AfterRefreshLoop /\ pc # "resolve" /\ pc # "fallback") => fallbacks = 1
  /\ timeout_s <= 0
     => /\ ~InLoopBody
        /\ refreshes = 0 /\ bounces = 0
        /\ PhaseOf(pc) <= 3 => first_check = "none"
        /\ ~(ever_cleared /\ ever_blocked)
        /\ grabs = 1 => first_check = "yes"
        /\ fallbacks = 1 => first_check = "no"
        /\ pc \in {"wait_main", "grab"} => first_check = "yes"
        /\ pc = "fallback" => first_check = "no"
C20_Witness ==
  /\ Done /\ timeout_s = 7 /\ ~ever_cleared /\ first_check = "no"
  /\ refreshes = 0 /\ fallbacks = 1 /\ outcome = "returned"

\* the least clock value at which the refresh loop can have been entered:
\* the end of the passive wait when no poll found the page cleared, start
\* when the first poll did, one nudge sleep after start otherwise
RefreshLoopEntryAtLeast ==
  IF ~ever_cleared THEN sub_deadline
  ELSE IF first_check = "yes" THEN start
  ELSE start + NudgeSleepBase
\* what the refresh loop has used of its budget when `refreshes` refreshes
\* and `bounces` bounces are complete
UsedByRefreshes == RefreshSleepBase * refreshes + (BounceSleepBase + RenavSleepBase) * bounces
\* a refresh begins only with budget left, and only when each refresh made
\* before it has used 3 s of the budget that was left after the passive wait;
\* so the refreshes number at most one per 3 s of timeout_s, rounded up
C19_RefreshBound ==
  /\ pc = "refresh" => /\ now < phase_deadline
                       /\ now >= RefreshLoopEntryAtLeast + UsedByRefreshes
  /\ refreshes >= 1 => 3 * TicksPerSec * (refreshes - 1) < timeout_s * TicksPerSec

\* the budget left at the clock value now: of the whole call, of the passive
\* wait
BudgetLeft == IF now < phase_deadline THEN phase_deadline - now ELSE 0
PassiveLeft == IF now < sub_deadline THEN sub_deadline - now ELSE 0
\* A measure of what a call still has to do: the position in the code after
\* the loops; in the refresh loop 16 for each tick of budget left plus the
\* position in the iteration (the steps after the refresh sleep count with
\* the next iteration); in the passive wait also 4 for each tick of passive
\* wait left; before the loops a value above all of these.
WarmUpBase == 20 * (MaxTimeout + 1) * TicksPerSec + 64
Rank ==
  CASE pc = "done" -> 0
    [] pc = "finally" -> 1
    [] pc = "save_json" -> 2
    [] pc = "save_txt" -> 3
    [] pc = "extract" -> 4
    [] pc \in {"grab", "fallback"} -> 5
    [] pc = "wait_main" -> 6
    [] pc = "resolve" -> 7
    [] pc = "refresh_sleep" -> 16 * BudgetLeft + 10
    [] pc = "refresh" -> 16 * BudgetLeft + 11
    [] pc = "loopB_check" -> 16 * BudgetLeft + 12
    [] pc = "loopB_test" -> 16 * BudgetLeft + 13
    [] pc = "renav_sleep" -> 16 * BudgetLeft + 14
    [] pc = "bounce_target" -> 16 * BudgetLeft + 15
    [] pc = "bounce_sleep" -> 16 * BudgetLeft + 16
    [] pc = "bounce_home" -> 16 * BudgetLeft + 17
    [] pc = "bounce_test" -> 16 * BudgetLeft + 18
    [] pc = "refresh_nudge" -> 16 * BudgetLeft + 19
    [] pc = "phaseB_init" -> 16 * BudgetLeft + 20
    [] pc = "loopA_sleep" -> 16 * BudgetLeft + 32 + 4 * PassiveLeft + 1
    [] pc = "loopA_nudge" -> 16 * BudgetLeft + 32 + 4 * PassiveLeft + 2
    [] pc = "loopA_check" -> 16 * BudgetLeft + 32 + 4 * PassiveLeft + 3
    [] pc = "loopA_test" -> 16 * BudgetLeft + 32 + 4 * PassiveLeft + 4
    [] pc = "get_target" -> WarmUpBase + 1
    [] pc = "sleep_home" -> WarmUpBase + 2
    [] pc = "get_home" -> WarmUpBase + 3
    [] pc = "polite_delay" -> WarmUpBase + 4
    [] pc = "make_chrome" -> WarmUpBase + 5

\* C19: every call of fetch_hearing ends, with a return or a raise, whatever
\* the page does, when every driver call returns and every sleep lasts at
\* least its base duration: each step of the call lowers a measure that is
\* a natural number, and as long as the call has not ended a step is
\* possible (for the extraction step see Extract, which has a branch for
\* either result); and the refreshes are bounded by the budget.
C19_Terminates ==
  /\ [](/\ Rank \in Nat
        /\ Done \/ pc = "extract" \/ ENABLED Next
        /\ Done => outcome \in {"returned", "raised"}
        /\ C19_RefreshBound)
  /\ [][/\ Rank' < Rank
        /\ now' >= now
        /\ pc \in {"loopA_sleep", "bounce_sleep"} => now' >= now + 2 * TicksPerSec
        /\ pc \in {"refresh_sleep", "renav_sleep"} => now' >= now + 3 * TicksPerSec]_vars
C19_Witness ==
  /\ Done /\ outcome = "raised" /\ pending = "TimeoutError"
  /\ timeout_s > 60 /\ first_check = "yes" /\ refreshes >= 10 /\ bounces >= 5

====
